---- MODULE Spec2Model ----
(***************************************************************************)
(* Model of protocol/message_validator.go: the clock-drift check and the   *)
(* per-kind validators of received messages.                               *)
(*                                                                         *)
(* Every validator is a pure function of (message, timestamp).  The state  *)
(* machine holds one pending call: Init draws the kind, the message and    *)
(* the timestamp from bounded sets, and one action per validator runs the  *)
(* call and stores the returned error.                                     *)
(*                                                                         *)
(* uint64 values are kept at full width as four 16-bit limbs, most         *)
(* significant first, because the model checker's integers are narrower    *)
(* than 64 bits.  Strings are sequences of one-character strings.          *)
(***************************************************************************)
EXTENDS Integers, Sequences, FiniteSets, TLC

VARIABLES kind, message, whisperTimestamp, pc, err

vars == <<kind, message, whisperTimestamp, pc, err>>

(***************************************************************************)
(* Bounds of the model.                                                    *)
(***************************************************************************)
MaxValueLen == 3   \* longest Value string
MaxStrLen == 2     \* longest Name, DeviceType, ... string
MaxEvents == 2     \* longest membership event sequence

(***************************************************************************)
(* uint64 arithmetic on limbs.                                             *)
(***************************************************************************)
Base == 2^16
U64(n) == <<0, 0, n \div Base, n % Base>>
Zero64 == U64(0)
MaxUint64 == <<Base - 1, Base - 1, Base - 1, Base - 1>>

RECURSIVE LessFrom(_, _, _)
LessFrom(a, b, i) ==
    IF i > Len(a) THEN FALSE
    ELSE IF a[i] # b[i] THEN a[i] < b[i]
    ELSE LessFrom(a, b, i + 1)

\* a < b on unsigned values of the same width
Less(a, b) == LessFrom(a, b, 1)

RECURSIVE Borrow(_, _, _)
\* the borrow taken from limb i by the less significant limbs
Borrow(a, b, i) ==
    IF i = Len(a) THEN 0
    ELSE IF a[i + 1] - b[i + 1] - Borrow(a, b, i + 1) < 0 THEN 1 ELSE 0

\* Go's a - b on uint64: the difference modulo 2^64
SubUint64(a, b) == [i \in 1..Len(a) |-> (a[i] - b[i] - Borrow(a, b, i)) % Base]

\* big.Int: sign and magnitude
BigSetUint64(x) == [neg |-> FALSE, abs |-> x]
BigSub(x, y) ==
    IF Less(x.abs, y.abs)
    THEN [neg |-> TRUE, abs |-> SubUint64(y.abs, x.abs)]
    ELSE [neg |-> FALSE, abs |-> SubUint64(x.abs, y.abs)]
BigAbs(x) == [neg |-> FALSE, abs |-> x.abs]
BigUint64(x) == x.abs

(***************************************************************************)
(* Strings.                                                                *)
(***************************************************************************)
WhiteSpace == {" ", "\t"}

RECURSIVE TrimLeft(_)
TrimLeft(s) ==
    IF Len(s) > 0 /\ Head(s) \in WhiteSpace THEN TrimLeft(Tail(s)) ELSE s

RECURSIVE TrimRight(_)
TrimRight(s) ==
    IF Len(s) > 0 /\ s[Len(s)] \in WhiteSpace
    THEN TrimRight(SubSeq(s, 1, Len(s) - 1))
    ELSE s

\* strings.TrimSpace
TrimSpace(s) == TrimRight(TrimLeft(s))

Digits == {"0", "1"}
HexDigits == Digits \cup {"a", "e"}

IsDigits(s) == \A i \in 1..Len(s) : s[i] \in Digits

\* digits [ "." digits ] with at least one digit on either side of the point
IsMantissa(s) ==
    \E k \in 0..Len(s) :
        /\ IsDigits(SubSeq(s, 1, k))
        /\ \/ k = Len(s) /\ k > 0
           \/ /\ k < Len(s)
              /\ s[k + 1] = "."
              /\ IsDigits(SubSeq(s, k + 2, Len(s)))
              /\ Len(s) > 1

IsSign(s) == s = <<>> \/ s = <<"-">>

\* [ "e" [sign] digits ]
IsExponent(s) ==
    \/ s = <<>>
    \/ /\ Len(s) >= 2
       /\ s[1] = "e"
       /\ \E k \in 1..2 :
            /\ k < Len(s)
            /\ IsSign(SubSeq(s, 2, k))
            /\ IsDigits(SubSeq(s, k + 1, Len(s)))

\* a base-10 floating-point literal
IsDecimalFloat(s) ==
    \E i \in 0..1, j \in 0..Len(s) :
        /\ i <= j
        /\ IsSign(SubSeq(s, 1, i))
        /\ IsMantissa(SubSeq(s, i + 1, j))
        /\ IsExponent(SubSeq(s, j + 1, Len(s)))

IsHexDigits(s) == \A i \in 1..Len(s) : s[i] \in HexDigits

\* hex digits [ "." hex digits ] with at least one digit
IsHexMantissa(s) ==
    \E k \in 0..Len(s) :
        /\ IsHexDigits(SubSeq(s, 1, k))
        /\ \/ k = Len(s) /\ k > 0
           \/ /\ k < Len(s)
              /\ s[k + 1] = "."
              /\ IsHexDigits(SubSeq(s, k + 2, Len(s)))
              /\ Len(s) > 1

\* "p" [sign] digits
IsBinaryExponent(s) ==
    /\ Len(s) >= 2
    /\ s[1] = "p"
    /\ \E k \in 1..2 :
         /\ k < Len(s)
         /\ IsSign(SubSeq(s, 2, k))
         /\ IsDigits(SubSeq(s, k + 1, Len(s)))

\* a hexadecimal floating-point literal: [sign] "0x" mantissa exponent
IsHexFloat(s) ==
    \E i \in 0..1, j \in 0..Len(s) :
        /\ i + 2 <= j
        /\ IsSign(SubSeq(s, 1, i))
        /\ SubSeq(s, i + 1, i + 2) = <<"0", "x">>
        /\ IsHexMantissa(SubSeq(s, i + 3, j))
        /\ IsBinaryExponent(SubSeq(s, j + 1, Len(s)))

\* the special values strconv.ParseFloat recognises: NaN, and signed Inf
IsSpecialFloat(s) ==
    \/ s = <<"n", "a", "n">>
    \/ \E i \in 0..1 :
         /\ i <= Len(s)
         /\ IsSign(SubSeq(s, 1, i))
         /\ SubSeq(s, i + 1, Len(s)) = <<"i", "n", "f">>

Nil == "nil"
ErrSyntax == "strconv.ParseFloat: invalid syntax"

\* strconv.ParseFloat(s, 64), its error only.  s is taken as it is, white
\* space included.  No string of the model is long enough to be out of the
\* range of float64, so the only error is the syntax error.
ParseFloat(s) ==
    IF IsSpecialFloat(s) \/ IsDecimalFloat(s) \/ IsHexFloat(s) THEN Nil
    ELSE ErrSyntax

(***************************************************************************)
(* The errors the validators return, by their messages.                    *)
(***************************************************************************)
ErrClockZero == "clock can't be 0"
ErrClockDrift == "clock value can't be too different from whisper timestamp"
ErrName == "name can't be empty"
ErrDeviceType == "device type can't be empty"
ErrInstallationId == "installationId can't be empty"
ErrTransactionHash == "transaction hash can't be empty"
ErrSignature == "signature can't be nil"
ErrValue == "value can't be empty"
ErrAddress == "address can't be empty"
ErrMessageID == "messageID can't be empty"
ErrTimestamp == "timestamp can't be 0"
ErrText == "text can't be empty"
ErrChatId == "chatId can't be empty"
ErrContentType == "unknown content type"
ErrTransactionCommand == "can't receive request address for transaction from others"
ErrMessageType == "unknown message type"
ErrNoSticker == "no sticker content"
ErrStickerHash == "sticker hash not set"

maxWhisperDriftMs == 120000

(***************************************************************************)
(* The validators.                                                         *)
(***************************************************************************)
validateClockValue_wrapping(clock, ts) ==
    IF clock = Zero64 THEN ErrClockZero
    ELSE IF Less(U64(maxWhisperDriftMs), SubUint64(clock, ts)) THEN ErrClockDrift
    ELSE Nil

validateClockValue_inclusive(clock, ts) ==
    IF clock = Zero64 THEN ErrClockZero
    ELSE IF ~Less(BigUint64(BigAbs(BigSub(BigSetUint64(clock), BigSetUint64(ts)))),
                  U64(maxWhisperDriftMs))
         THEN ErrClockDrift
    ELSE Nil

validateClockValue(clock, ts) ==
    IF clock = Zero64 THEN ErrClockZero
    ELSE LET c == BigSetUint64(clock)
             w == BigSetUint64(ts)
             result == BigSub(c, w)
             difference == BigUint64(BigAbs(result))
         IN  IF Less(U64(maxWhisperDriftMs), difference) THEN ErrClockDrift
             ELSE Nil

RECURSIVE MembershipFrom(_, _, _)
\* the loop over message.Events, from event i on
MembershipFrom(events, timeNowMs, i) ==
    IF i > Len(events) THEN Nil
    ELSE IF /\ Less(timeNowMs, events[i].ClockValue)
            /\ Less(U64(maxWhisperDriftMs), SubUint64(events[i].ClockValue, timeNowMs))
         THEN ErrClockDrift
         ELSE MembershipFrom(events, timeNowMs, i + 1)

RECURSIVE MembershipFrom_unguarded(_, _, _)
MembershipFrom_unguarded(events, timeNowMs, i) ==
    IF i > Len(events) THEN Nil
    ELSE IF Less(U64(maxWhisperDriftMs), SubUint64(events[i].ClockValue, timeNowMs))
         THEN ErrClockDrift
         ELSE MembershipFrom_unguarded(events, timeNowMs, i + 1)

ValidateMembershipUpdateMessage_unguarded(m, timeNowMs) ==
    MembershipFrom_unguarded(m.Events, timeNowMs, 1)

ValidateMembershipUpdateMessage(m, timeNowMs) ==
    MembershipFrom(m.Events, timeNowMs, 1)

ValidateReceivedPairInstallation(m, ts) ==
    LET e == validateClockValue(m.Clock, ts) IN
    IF e # Nil THEN e
    ELSE IF Len(TrimSpace(m.Name)) = 0 THEN ErrName
    ELSE IF Len(TrimSpace(m.DeviceType)) = 0 THEN ErrDeviceType
    ELSE IF Len(TrimSpace(m.InstallationId)) = 0 THEN ErrInstallationId
    ELSE Nil

ValidateReceivedSendTransaction(m, ts) ==
    LET e == validateClockValue(m.Clock, ts) IN
    IF e # Nil THEN e
    ELSE IF Len(TrimSpace(m.TransactionHash)) = 0 THEN ErrTransactionHash
    ELSE IF m.Signature.isNil THEN ErrSignature
    ELSE Nil

ValidateReceivedRequestAddressForTransaction(m, ts) ==
    LET e == validateClockValue(m.Clock, ts) IN
    IF e # Nil THEN e
    ELSE IF Len(TrimSpace(m.Value)) = 0 THEN ErrValue
    ELSE ParseFloat(m.Value)

ValidateReceivedRequestTransaction_parseFirst(m, ts) ==
    LET e == validateClockValue(m.Clock, ts) IN
    IF e # Nil THEN e
    ELSE IF Len(TrimSpace(m.Value)) = 0 THEN ErrValue
    ELSE IF ParseFloat(m.Value) # Nil THEN ParseFloat(m.Value)
    ELSE IF Len(TrimSpace(m.Address)) = 0 THEN ErrAddress
    ELSE Nil

ValidateReceivedRequestTransaction(m, ts) ==
    LET e == validateClockValue(m.Clock, ts) IN
    IF e # Nil THEN e
    ELSE IF Len(TrimSpace(m.Value)) = 0 THEN ErrValue
    ELSE IF Len(TrimSpace(m.Address)) = 0 THEN ErrAddress
    ELSE ParseFloat(m.Value)

ValidateReceivedAcceptRequestAddressForTransaction_trimmedId(m, ts) ==
    LET e == validateClockValue(m.Clock, ts) IN
    IF e # Nil THEN e
    ELSE IF Len(TrimSpace(m.Id)) = 0 THEN ErrMessageID
    ELSE IF Len(TrimSpace(m.Address)) = 0 THEN ErrAddress
    ELSE Nil

ValidateReceivedAcceptRequestAddressForTransaction(m, ts) ==
    LET e == validateClockValue(m.Clock, ts) IN
    IF e # Nil THEN e
    ELSE IF Len(m.Id) = 0 THEN ErrMessageID
    ELSE IF Len(TrimSpace(m.Address)) = 0 THEN ErrAddress
    ELSE Nil

ValidateReceivedDeclineRequestAddressForTransaction(m, ts) ==
    LET e == validateClockValue(m.Clock, ts) IN
    IF e # Nil THEN e
    ELSE IF Len(m.Id) = 0 THEN ErrMessageID
    ELSE Nil

ValidateReceivedDeclineRequestTransaction(m, ts) ==
    LET e == validateClockValue(m.Clock, ts) IN
    IF e # Nil THEN e
    ELSE IF Len(m.Id) = 0 THEN ErrMessageID
    ELSE Nil

\* ChatMessage.GetSticker(): the sticker of a sticker payload, absent otherwise
GetSticker(m) ==
    IF m.Payload.tag = "Sticker" /\ m.Payload.hasSticker
    THEN [isNil |-> FALSE, Hash |-> m.Payload.Hash]
    ELSE [isNil |-> TRUE, Hash |-> <<>>]

chatMessageFields_untrimmedText(m) ==
    IF m.Timestamp = Zero64 THEN ErrTimestamp
    ELSE IF Len(m.Text) = 0 THEN ErrText
    ELSE IF Len(m.ChatId) = 0 THEN ErrChatId
    ELSE Nil

\* ValidateReceivedChatMessage, the checks of Timestamp, Text and ChatId
chatMessageFields(m) ==
    IF m.Timestamp = Zero64 THEN ErrTimestamp
    ELSE IF Len(TrimSpace(m.Text)) = 0 THEN ErrText
    ELSE IF Len(m.ChatId) = 0 THEN ErrChatId
    ELSE Nil

chatMessageEnums_rangeChecked(m) ==
    IF m.ContentType \notin {"TEXT_PLAIN", "STICKER", "IMAGE"} THEN ErrContentType
    ELSE IF m.MessageType \notin {"ONE_TO_ONE"} THEN ErrMessageType
    ELSE Nil

\* ValidateReceivedChatMessage, the checks of ContentType and MessageType
chatMessageEnums(m) ==
    IF m.ContentType = "UNKNOWN_CONTENT_TYPE" THEN ErrContentType
    ELSE IF m.ContentType = "TRANSACTION_COMMAND" THEN ErrTransactionCommand
    ELSE IF \/ m.MessageType = "UNKNOWN_MESSAGE_TYPE"
            \/ m.MessageType = "SYSTEM_MESSAGE_PRIVATE_GROUP"
         THEN ErrMessageType
    ELSE Nil

chatMessageSticker_noHashCheck(m) ==
    IF m.ContentType = "STICKER"
    THEN IF m.Payload.tag = "nil" THEN ErrNoSticker
         ELSE IF GetSticker(m).isNil THEN ErrNoSticker
         ELSE Nil
    ELSE Nil

\* ValidateReceivedChatMessage, the checks of the payload of a sticker
chatMessageSticker(m) ==
    IF m.ContentType = "STICKER"
    THEN IF m.Payload.tag = "nil" THEN ErrNoSticker
         ELSE LET sticker == GetSticker(m) IN
              IF sticker.isNil THEN ErrNoSticker
              ELSE IF Len(sticker.Hash) = 0 THEN ErrStickerHash
              ELSE Nil
    ELSE Nil

ValidateReceivedChatMessage_fieldsFirst(m, ts) ==
    IF chatMessageFields(m) # Nil THEN chatMessageFields(m)
    ELSE IF validateClockValue(m.Clock, ts) # Nil THEN validateClockValue(m.Clock, ts)
    ELSE IF chatMessageEnums(m) # Nil THEN chatMessageEnums(m)
    ELSE chatMessageSticker(m)

ValidateReceivedChatMessage(m, ts) ==
    LET e == validateClockValue(m.Clock, ts) IN
    IF e # Nil THEN e
    ELSE IF chatMessageFields(m) # Nil THEN chatMessageFields(m)
    ELSE IF chatMessageEnums(m) # Nil THEN chatMessageEnums(m)
    ELSE chatMessageSticker(m)

(***************************************************************************)
(* The inputs.                                                             *)
(***************************************************************************)
\* every string over alphabet of length at most n
Strings(alphabet, n) == UNION {[1..k -> alphabet] : k \in 0..n}

\* Value: digits, point, sign, exponent, letters and white space
\* and two longer literals: a hexadecimal one and an infinity
ValueStrings ==
    Strings({" ", "1", ".", "-", "e", "n", "a"}, MaxValueLen)
        \cup {<<"0", "x", "1", "p", "1">>, <<"-", "i", "n", "f">>}

\* Name, DeviceType, InstallationId, TransactionHash, Address, Id, Text
FieldStrings == Strings({" ", "a"}, MaxStrLen)

ChatIds == {<<>>, <<" ">>, <<"c", "1">>}

\* clocks and timestamps around 0, around the drift and at the top of uint64
ClockValues ==
    {U64(0), U64(1), U64(2), U64(1000), U64(maxWhisperDriftMs),
     U64(maxWhisperDriftMs + 1), U64(maxWhisperDriftMs + 2),
     U64(maxWhisperDriftMs + 1000), U64(maxWhisperDriftMs + 1001),
     <<Base \div 2, 0, 0, 0>>,
     SubUint64(MaxUint64, U64(maxWhisperDriftMs + 1)),
     SubUint64(MaxUint64, U64(maxWhisperDriftMs)),
     SubUint64(MaxUint64, U64(1)), MaxUint64}

\* the clocks and timestamps of the messages of the eight kinds
MessageClocks == {U64(0), U64(1), U64(1000), U64(maxWhisperDriftMs + 1001), MaxUint64}
MessageTimestamps ==
    {U64(0), U64(1000), U64(maxWhisperDriftMs + 1000),
     U64(maxWhisperDriftMs + 1001), MaxUint64}

\* a []byte: nil, empty or not empty
Signatures ==
    {[isNil |-> TRUE, bytes |-> <<>>], [isNil |-> FALSE, bytes |-> <<>>],
     [isNil |-> FALSE, bytes |-> <<1>>]}

\* ChatMessage_ContentType and ChatMessage_MessageType, with a value outside the enum
ContentTypes ==
    {"UNKNOWN_CONTENT_TYPE", "TEXT_PLAIN", "STICKER", "TRANSACTION_COMMAND",
     "IMAGE", "UNRECOGNIZED_CONTENT_TYPE"}
MessageTypes ==
    {"UNKNOWN_MESSAGE_TYPE", "ONE_TO_ONE", "SYSTEM_MESSAGE_PRIVATE_GROUP",
     "UNRECOGNIZED_MESSAGE_TYPE"}

\* ChatMessage.Payload: nil, an image, a sticker wrapper without or with a sticker
Payloads ==
    {[tag |-> "nil", hasSticker |-> FALSE, Hash |-> <<>>],
     [tag |-> "Image", hasSticker |-> FALSE, Hash |-> <<>>],
     [tag |-> "Sticker", hasSticker |-> FALSE, Hash |-> <<>>],
     [tag |-> "Sticker", hasSticker |-> TRUE, Hash |-> <<>>],
     [tag |-> "Sticker", hasSticker |-> TRUE, Hash |-> <<"h">>]}

MessageKinds ==
    {"PairInstallation", "SendTransaction", "RequestAddressForTransaction",
     "RequestTransaction", "AcceptRequestAddressForTransaction",
     "DeclineRequestAddressForTransaction", "DeclineRequestTransaction",
     "ChatMessage"}

Messages(k, ts) ==
    CASE k = "ClockValue" -> [Clock : ClockValues]
      [] k = "MembershipUpdateMessage" ->
            [Events : UNION {[1..n -> [ClockValue : ClockValues]] : n \in 0..MaxEvents}]
      [] k = "PairInstallation" ->
            [Clock : MessageClocks, Name : FieldStrings, DeviceType : FieldStrings,
             InstallationId : FieldStrings]
      [] k = "SendTransaction" ->
            [Clock : MessageClocks, TransactionHash : FieldStrings,
             Signature : Signatures]
      [] k = "RequestAddressForTransaction" ->
            [Clock : MessageClocks, Value : ValueStrings]
      [] k = "RequestTransaction" ->
            [Clock : MessageClocks, Value : ValueStrings, Address : FieldStrings]
      [] k = "AcceptRequestAddressForTransaction" ->
            [Clock : MessageClocks, Id : FieldStrings, Address : FieldStrings]
      [] k = "DeclineRequestAddressForTransaction" ->
            [Clock : MessageClocks, Id : FieldStrings]
      [] k = "DeclineRequestTransaction" ->
            [Clock : MessageClocks, Id : FieldStrings]
      [] k = "ChatMessage" ->
            [Clock : MessageClocks, Timestamp : {U64(0), U64(1), ts},
             Text : FieldStrings, ChatId : ChatIds, ContentType : ContentTypes,
             MessageType : MessageTypes, Payload : Payloads]

Timestamps(k) ==
    IF k \in MessageKinds THEN MessageTimestamps ELSE ClockValues

Init ==
    /\ kind \in MessageKinds \cup {"ClockValue", "MembershipUpdateMessage"}
    /\ whisperTimestamp \in Timestamps(kind)
    /\ message \in Messages(kind, whisperTimestamp)
    /\ pc = "call"
    /\ err = Nil

\* the call of the validator of kind k returns
Return(k, e) ==
    /\ pc = "call"
    /\ kind = k
    /\ pc' = "done"
    /\ err' = e
    /\ UNCHANGED <<kind, message, whisperTimestamp>>

CallValidateClockValue ==
    Return("ClockValue", validateClockValue(message.Clock, whisperTimestamp))

CallValidateMembershipUpdateMessage ==
    Return("MembershipUpdateMessage",
           ValidateMembershipUpdateMessage(message, whisperTimestamp))

CallValidateReceivedPairInstallation ==
    Return("PairInstallation",
           ValidateReceivedPairInstallation(message, whisperTimestamp))

CallValidateReceivedSendTransaction ==
    Return("SendTransaction",
           ValidateReceivedSendTransaction(message, whisperTimestamp))

CallValidateReceivedRequestAddressForTransaction ==
    Return("RequestAddressForTransaction",
           ValidateReceivedRequestAddressForTransaction(message, whisperTimestamp))

CallValidateReceivedRequestTransaction ==
    Return("RequestTransaction",
           ValidateReceivedRequestTransaction(message, whisperTimestamp))

CallValidateReceivedAcceptRequestAddressForTransaction ==
    Return("AcceptRequestAddressForTransaction",
           ValidateReceivedAcceptRequestAddressForTransaction(message, whisperTimestamp))

CallValidateReceivedDeclineRequestAddressForTransaction ==
    Return("DeclineRequestAddressForTransaction",
           ValidateReceivedDeclineRequestAddressForTransaction(message, whisperTimestamp))

CallValidateReceivedDeclineRequestTransaction ==
    Return("DeclineRequestTransaction",
           ValidateReceivedDeclineRequestTransaction(message, whisperTimestamp))

CallValidateReceivedChatMessage ==
    Return("ChatMessage", ValidateReceivedChatMessage(message, whisperTimestamp))

Next ==
    \/ CallValidateClockValue
    \/ CallValidateMembershipUpdateMessage
    \/ CallValidateReceivedPairInstallation
    \/ CallValidateReceivedSendTransaction
    \/ CallValidateReceivedRequestAddressForTransaction
    \/ CallValidateReceivedRequestTransaction
    \/ CallValidateReceivedAcceptRequestAddressForTransaction
    \/ CallValidateReceivedDeclineRequestAddressForTransaction
    \/ CallValidateReceivedDeclineRequestTransaction
    \/ CallValidateReceivedChatMessage

Spec == Init /\ [][Next]_vars

(***************************************************************************)
(* Properties.  They are stated over the mathematical values of the        *)
(* clocks, with sums one limb wider than uint64, and over the order of     *)
(* the checks as a list.                                                   *)
(***************************************************************************)
RECURSIVE Carry(_, _, _)
\* the carry into limb i from the less significant limbs
Carry(a, b, i) ==
    IF i = Len(a) THEN 0
    ELSE IF a[i + 1] + b[i + 1] + Carry(a, b, i + 1) >= Base THEN 1 ELSE 0

\* a + b, not reduced modulo 2^64
Sum(a, b) == <<Carry(a, b, 0)>> \o [i \in 1..Len(a) |-> (a[i] + b[i] + Carry(a, b, i)) % Base]
Wide(a) == <<0>> \o a

\* a > b + maxWhisperDriftMs
Ahead(a, b) == Less(Sum(b, U64(maxWhisperDriftMs)), Wide(a))

\* |clock - reference| > maxWhisperDriftMs
DriftExceeded(clock, reference) == Ahead(clock, reference) \/ Ahead(reference, clock)

ClockVerdict(clock, reference) ==
    IF clock = Zero64 THEN ErrClockZero
    ELSE IF DriftExceeded(clock, reference) THEN ErrClockDrift
    ELSE Nil

NonBlank(s) == \E i \in 1..Len(s) : s[i] \notin WhiteSpace
NonEmpty(s) == Len(s) > 0

Check(ok, e) == [ok |-> ok, err |-> e]

RECURSIVE FirstFailure(_)
\* the error of the first check of the list that fails
FirstFailure(checks) ==
    IF checks = <<>> THEN Nil
    ELSE IF ~Head(checks).ok THEN Head(checks).err
    ELSE FirstFailure(Tail(checks))

Done(k) == pc = "done" /\ kind = k
ClockPasses == ClockVerdict(message.Clock, whisperTimestamp) = Nil

\* C1: validateClockValue returns the zero-clock error when clock = 0, otherwise
\* the drift error exactly when |clock - reference| > 120000 as integers, and
\* otherwise passes.
C1_ValidateClock ==
    Done("ClockValue") => err = ClockVerdict(message.Clock, whisperTimestamp)

\* clock = 1 against reference = 2^64 - 1 is rejected
C1_Witness ==
    /\ Done("ClockValue")
    /\ message.Clock = U64(1)
    /\ whisperTimestamp = MaxUint64
    /\ err = ErrClockDrift

\* C2, as claimed: for every kind but the membership one and every clock, the
\* message is rejected with the drift error if |clock - reference| > 120000 and
\* the clock check passes otherwise.
C2_DriftDecidesClockCheck ==
    (pc = "done" /\ kind \in MessageKinds) =>
        IF DriftExceeded(message.Clock, whisperTimestamp)
        THEN err = ErrClockDrift
        ELSE err \notin {ErrClockZero, ErrClockDrift}

\* C2, amended: the same for every clock other than 0; a clock of 0 is rejected
\* with the zero-clock error whatever the difference.
C2_DriftDecidesNonzeroClock ==
    (pc = "done" /\ kind \in MessageKinds) =>
        IF message.Clock = Zero64 THEN err = ErrClockZero
        ELSE IF DriftExceeded(message.Clock, whisperTimestamp)
        THEN err = ErrClockDrift
        ELSE err \notin {ErrClockZero, ErrClockDrift}

\* a difference of exactly 120000 passes the clock check of a message
C2_Witness ==
    /\ pc = "done"
    /\ kind = "SendTransaction"
    /\ message.Clock = U64(1000)
    /\ whisperTimestamp = U64(maxWhisperDriftMs + 1000)
    /\ err = Nil

\* C3: in each of the eight validators the clock check comes first: when it
\* fails its error is the one returned, whatever the other fields hold, and
\* a clock of 0 is always the zero-clock error.
C3_ClockCheckFirst ==
    (pc = "done" /\ kind \in MessageKinds) =>
        /\ ~ClockPasses => err = ClockVerdict(message.Clock, whisperTimestamp)
        /\ message.Clock = Zero64 => err = ErrClockZero

\* a chat message with a clock of 0, a timestamp of 0 and no text
C3_Witness ==
    /\ Done("ChatMessage")
    /\ message.Clock = Zero64
    /\ message.Timestamp = Zero64
    /\ message.Text = <<>>
    /\ whisperTimestamp = MaxUint64
    /\ err = ErrClockZero

\* C4: a membership update is rejected, with the drift error, exactly when
\* some event has Clock > now and Clock - now > 120000 as integers; clocks at
\* or behind now, 0 included, never reject, and no events means accepted.
C4_MembershipOneSided ==
    Done("MembershipUpdateMessage") =>
        /\ err \in {Nil, ErrClockDrift}
        /\ err = ErrClockDrift <=>
             \E i \in 1..Len(message.Events) :
                /\ Less(whisperTimestamp, message.Events[i].ClockValue)
                /\ Ahead(message.Events[i].ClockValue, whisperTimestamp)
        /\ (\A i \in 1..Len(message.Events) :
                ~Less(whisperTimestamp, message.Events[i].ClockValue)) => err = Nil

\* events with clock 0 and clock 1 against now = 2^64 - 1 are accepted
C4_Witness ==
    /\ Done("MembershipUpdateMessage")
    /\ Len(message.Events) = 2
    /\ message.Events[1].ClockValue = Zero64
    /\ message.Events[2].ClockValue = U64(1)
    /\ whisperTimestamp = MaxUint64
    /\ err = Nil

C6_Scenario ==
    /\ Done("ChatMessage")
    /\ message.Clock = U64(1000)
    /\ message.Timestamp = whisperTimestamp
    /\ ~NonBlank(message.Text)
    /\ message.ChatId = <<"c", "1">>
    /\ message.ContentType = "TEXT_PLAIN"

\* C6, as claimed: for every now_ms the message of the scenario is rejected
\* with the empty-text error.
C6_AlwaysEmptyText == C6_Scenario => err = ErrText

\* C6, amended: the message of the scenario is always rejected: with the drift
\* error when |1000 - now_ms| > 120000, with the zero-timestamp error when
\* now_ms = 0, and with the empty-text error otherwise.
C6_EmptyTextWithinDrift ==
    C6_Scenario =>
        err = IF DriftExceeded(U64(1000), whisperTimestamp) THEN ErrClockDrift
              ELSE IF whisperTimestamp = Zero64 THEN ErrTimestamp
              ELSE ErrText

\* now_ms = 121000, the largest one within the drift of clock 1000
C6_Witness ==
    /\ C6_Scenario
    /\ whisperTimestamp = U64(maxWhisperDriftMs + 1000)
    /\ err = ErrText

StickerPresent(m) ==
    m.Payload.tag = "Sticker" /\ m.Payload.hasSticker /\ NonEmpty(m.Payload.Hash)

C8_BeforePayload ==
    /\ Done("ChatMessage")
    /\ ClockPasses
    /\ message.Timestamp # Zero64
    /\ NonBlank(message.Text)
    /\ NonEmpty(message.ChatId)
    /\ message.ContentType \notin {"UNKNOWN_CONTENT_TYPE", "TRANSACTION_COMMAND"}
    /\ message.MessageType \notin {"UNKNOWN_MESSAGE_TYPE", "SYSTEM_MESSAGE_PRIVATE_GROUP"}

\* C8: for a sticker that passes the checks before the payload, no Payload or
\* a Payload without a sticker is "no sticker content", a sticker with an empty
\* Hash is "sticker hash not set", and anything else is accepted; for any other
\* allowed ContentType the Payload is not looked at.
C8_StickerLayers ==
    C8_BeforePayload =>
        err = IF message.ContentType # "STICKER" THEN Nil
              ELSE IF message.Payload.tag = "nil" THEN ErrNoSticker
              ELSE IF ~(message.Payload.tag = "Sticker" /\ message.Payload.hasSticker)
                   THEN ErrNoSticker
              ELSE IF message.Payload.Hash = <<>> THEN ErrStickerHash
              ELSE Nil

\* a sticker with an empty Hash
C8_Witness ==
    /\ C8_BeforePayload
    /\ message.ContentType = "STICKER"
    /\ message.Payload.tag = "Sticker"
    /\ message.Payload.hasSticker
    /\ message.Payload.Hash = <<>>
    /\ err = ErrStickerHash

\* C9: with a passing clock check, RequestAddressForTransaction accepts
\* exactly the Values that are non-blank and a base-10 number; a blank Value is
\* the empty-value error and any other Value the parse error.
C9_AcceptsBase10Only ==
    (Done("RequestAddressForTransaction") /\ ClockPasses) =>
        err = IF ~NonBlank(message.Value) THEN ErrValue
              ELSE IF IsDecimalFloat(message.Value) THEN Nil
              ELSE ErrSyntax

\* C10: each of the five structural kinds returns the error of the first
\* failing check, the clock check first and then the fields in the order of
\* the table, and so accepts exactly when every check passes: Name,
\* DeviceType, InstallationId, TransactionHash and Address are trimmed, Id is
\* not, and Signature has to be there.
C10_StructuralKinds ==
    LET c == Check(ClockPasses, ClockVerdict(message.Clock, whisperTimestamp))
        m == message
    IN
    /\ Done("PairInstallation") =>
         err = FirstFailure(<<c, Check(NonBlank(m.Name), ErrName),
                              Check(NonBlank(m.DeviceType), ErrDeviceType),
                              Check(NonBlank(m.InstallationId), ErrInstallationId)>>)
    /\ Done("SendTransaction") =>
         err = FirstFailure(<<c, Check(NonBlank(m.TransactionHash), ErrTransactionHash),
                              Check(~m.Signature.isNil, ErrSignature)>>)
    /\ Done("AcceptRequestAddressForTransaction") =>
         err = FirstFailure(<<c, Check(NonEmpty(m.Id), ErrMessageID),
                              Check(NonBlank(m.Address), ErrAddress)>>)
    /\ Done("DeclineRequestAddressForTransaction") =>
         err = FirstFailure(<<c, Check(NonEmpty(m.Id), ErrMessageID)>>)
    /\ Done("DeclineRequestTransaction") =>
         err = FirstFailure(<<c, Check(NonEmpty(m.Id), ErrMessageID)>>)

\* an Id of white space only is accepted
C10_Witness ==
    /\ Done("AcceptRequestAddressForTransaction")
    /\ message.Id = <<" ">>
    /\ message.Address = <<"a">>
    /\ err = Nil

====
